---- MODULE Spec2Model ----
(***************************************************************************)
(* A model of createModel (src/src/lib/Model.ts): an observable container  *)
(* built on a svelte writable store, with set / update / mutate write      *)
(* paths, a caller-supplied saveFn / loadFn / mutateFn, and the one-shot   *)
(* INITIALIZED promise.                                                    *)
(*                                                                         *)
(* JavaScript objects have identity: the store holds a reference, and the  *)
(* default mutate assigns into the referenced object in place.  Values are *)
(* therefore either the empty value undefined or a reference into `heap`.  *)
(***************************************************************************)
EXTENDS Integers, Sequences, FiniteSets, TLC

VARIABLES
    options,     \* the argument of createModel: [given, o]
    value,       \* the writable's current value
    heap,        \* the objects allocated so far: ref -> fields
    subs,        \* the writable's subscribers, in insertion order
    saveCalls,   \* the saveFn invocations so far: [arg, snap]
    saveDone,    \* the saveFn invocations that completed, in completion order
    loadFnCalls, \* the number of loadFn invocations so far
    inFlight,    \* explicit load() calls awaiting loadFn()
    initPc,      \* the position of the INITIALIZED executor
    initL,       \* the executor's local `l`
    initialized, \* the INITIALIZED promise: [status, val]
    lastOp,      \* the call or continuation the last step ran, see Op
    trace        \* what the last step did, in order

vars == <<options, value, heap, subs, saveCalls, saveDone, loadFnCalls, inFlight,
          initPc, initL, initialized, lastOp, trace>>

----------------------------------------------------------------------------
\* Bounds of the model.

\* Objects created in one run (by callers, updaters and loadFn), saveFn
\* invocations recorded, and loadFn invocations.
MaxObjs == 2
MaxSaves == 2
MaxLoadCalls == 2

\* The keys objects have, in the order Object.keys lists them, and the
\* callbacks that subscribe.
KeyOrder == <<"x", "y">>
SubIds == {"s1"}
NoSub == "-"

\* The objects a caller passes, the descriptors it mutates with, and the
\* objects loadFn returns.
NoFields == [k \in {} |-> 0]
InputObjs == {[x |-> 1]}
Mutations == {[x |-> 2], [x |-> 2, y |-> 2]}
LoadedObjs == {[x |-> 1, y |-> 1]}

----------------------------------------------------------------------------
\* Values.

Undef == [t |-> "undefined", ref |-> 0]
Obj(r) == [t |-> "object", ref |-> r]

IsObject(v) == v.t = "object"
\* JavaScript truthiness of a model value: `!data`, `if (loadedData)`, `if (l)`.
Truthy(v) == IsObject(v)
IsEmpty(v) == ~Truthy(v)

\* The `{}` INITIALIZED resolves with when there is nothing to load: an
\* object of its own, never the store's value.
Placeholder == [t |-> "placeholder", ref |-> 0]

Snap(v, h) == [t |-> v.t, fields |-> IF IsObject(v) THEN h[v.ref] ELSE NoFields]

----------------------------------------------------------------------------
\* Options.

FnNames == {"saveFn", "loadFn", "mutateFn"}

DEFAULT_OPTS == [allowUndefinedData |-> FALSE, loadOnCreate |-> TRUE]

\* { ...a, ...b }: the keys of both, b's value where both have the key.
Spread(a, b) ==
    [k \in (DOMAIN a) \cup (DOMAIN b) |-> IF k \in DOMAIN b THEN b[k] ELSE a[k]]

MergeOpts(o) == Spread(o, DEFAULT_OPTS)

opts == IF options.given THEN MergeOpts(options.o) ELSE DEFAULT_OPTS

\* `opts.k` used as a condition: absent reads as undefined.
Opt(k) == k \in DOMAIN opts /\ opts[k]

\* What the caller asked for, whatever the merge made of it.
Asked(k) == options.given /\ k \in DOMAIN options.o /\ options.o[k]
AskedFalse(k) == options.given /\ k \in DOMAIN options.o /\ ~options.o[k]

\* The flags a caller passes: none, or both set against their defaults.
FlagArgs == {NoFields, [allowUndefinedData |-> TRUE, loadOnCreate |-> FALSE]}

\* The functions a caller passes: any of saveFn, loadFn and mutateFn.
FnArgs == UNION {[D -> {TRUE}] : D \in SUBSET FnNames}

\* A loadFn with the onInitialized callback.
CallbackArgs == {[loadFn |-> TRUE, onInitialized |-> TRUE]}

OptionObjs == {Spread(f, g) : f \in FlagArgs, g \in FnArgs} \cup CallbackArgs

NoOptions == [given |-> FALSE, o |-> NoFields]
OptionsArgs == {NoOptions} \cup {[given |-> TRUE, o |-> o] : o \in OptionObjs}

----------------------------------------------------------------------------
\* What a step did: one event per observable effect, in the order of the code.
\* Event types: "commit" (the store assigns), "notify" (a subscriber is
\* called), "save", "loadFn", "mutateFn" (the option is called), "warn"
\* (console.warn) and "throw" (an error reaches the caller).
\* Outcomes of an operation: "committed" (it reached the store's set),
\* "rejected" (it returned early), "threw", "delegated" (to mutateFn),
\* "awaiting" / "returned" (cLoad before and after its await).

Ev(type, sub, arg) == [type |-> type, sub |-> sub, arg |-> arg]

Op(op, arg, mut, fn, outcome, ret) ==
    [op |-> op, arg |-> arg, mut |-> mut, fn |-> fn,
     pre |-> value, preSnap |-> Snap(value, heap),
     outcome |-> outcome, ret |-> ret]

NoOp == [op |-> "create", arg |-> Undef, mut |-> NoFields, fn |-> "",
         pre |-> Undef, preSnap |-> Snap(Undef, <<>>),
         outcome |-> "none", ret |-> Undef]

Count(type) == Cardinality({i \in 1..Len(trace) : trace[i].type = type})
Pos(type) == {i \in 1..Len(trace) : trace[i].type = type}

----------------------------------------------------------------------------
\* The svelte writable: const { subscribe, set, update } = writable<T>().

\* safe_not_equal(a, b): an object always counts as changed.
SafeNotEqual(a, b) == a # b \/ IsObject(a)

\* set(new_value): the value the store holds afterwards ...
StoreValue(nv) == IF SafeNotEqual(value, nv) THEN nv ELSE value

\* ... and what it does: the assignment, then every subscriber in insertion
\* order.
StoreSet(nv) ==
    IF SafeNotEqual(value, nv)
    THEN <<Ev("commit", NoSub, nv)>> \o [i \in 1..Len(subs) |-> Ev("notify", subs[i], nv)]
    ELSE <<>>

\* if (opts.saveFn) opts.saveFn(v)
SaveEv(v) == IF Opt("saveFn") THEN <<Ev("save", NoSub, v)>> ELSE <<>>
SaveRec(v, h) ==
    IF Opt("saveFn") THEN Append(saveCalls, [arg |-> v, snap |-> Snap(v, h)])
    ELSE saveCalls

----------------------------------------------------------------------------
\* set(data).  `h` is the heap at the call: the caller's object, when it
\* passes a new one, is already in it.

\* set that hands saveFn the value the store held before the call.
cSet_SavesOld(data, h) ==
    /\ IF IsEmpty(data) /\ ~Opt("allowUndefinedData")
       THEN /\ value' = value
            /\ saveCalls' = saveCalls
            /\ trace' = <<Ev("warn", NoSub, data)>>
            /\ lastOp' = Op("set", data, NoFields, "", "rejected", Undef)
       ELSE /\ value' = StoreValue(data)
            /\ saveCalls' = SaveRec(value, h)
            /\ trace' = StoreSet(data) \o SaveEv(value)
            /\ lastOp' = Op("set", data, NoFields, "", "committed", Undef)
    /\ heap' = h
    /\ UNCHANGED <<options, saveDone, subs, loadFnCalls, inFlight, initPc, initL, initialized>>

\* set without the check of line 80.
cSet_NoGuard(data, h) ==
    /\ value' = StoreValue(data)
    /\ saveCalls' = SaveRec(data, h)
    /\ trace' = StoreSet(data) \o SaveEv(data)
    /\ lastOp' = Op("set", data, NoFields, "", "committed", Undef)
    /\ heap' = h
    /\ UNCHANGED <<options, saveDone, subs, loadFnCalls, inFlight, initPc, initL, initialized>>

\* set that awaits saveFn: the save has completed when set returns.
cSet_AwaitsSave(data, h) ==
    /\ IF IsEmpty(data) /\ ~Opt("allowUndefinedData")
       THEN /\ value' = value
            /\ saveCalls' = saveCalls
            /\ saveDone' = saveDone
            /\ trace' = <<Ev("warn", NoSub, data)>>
            /\ lastOp' = Op("set", data, NoFields, "", "rejected", Undef)
       ELSE /\ value' = StoreValue(data)
            /\ saveCalls' = SaveRec(data, h)
            /\ saveDone' = IF Opt("saveFn") THEN Append(saveDone, Len(saveCalls) + 1)
                           ELSE saveDone
            /\ trace' = StoreSet(data) \o SaveEv(data)
            /\ lastOp' = Op("set", data, NoFields, "", "committed", Undef)
    /\ heap' = h
    /\ UNCHANGED <<options, subs, loadFnCalls, inFlight, initPc, initL, initialized>>

cSet(data, h) ==
    /\ IF IsEmpty(data) /\ ~Opt("allowUndefinedData")
       THEN /\ value' = value
            /\ saveCalls' = saveCalls
            /\ trace' = <<Ev("warn", NoSub, data)>>
            /\ lastOp' = Op("set", data, NoFields, "", "rejected", Undef)
       ELSE /\ value' = StoreValue(data)
            /\ saveCalls' = SaveRec(data, h)
            /\ trace' = StoreSet(data) \o SaveEv(data)
            /\ lastOp' = Op("set", data, NoFields, "", "committed", Undef)
    /\ heap' = h
    /\ UNCHANGED <<options, saveDone, subs, loadFnCalls, inFlight, initPc, initL, initialized>>

----------------------------------------------------------------------------
\* update(updater).

Transforms == {"identity", "toUndefined", "spreadX"}

\* updater(v): the value it returns and the heap afterwards.
\* spreadX is v => ({ ...v, x: 2 }), which builds a new object.
Apply(f, v, h) ==
    CASE f = "identity" -> [val |-> v, heap |-> h]
      [] f = "toUndefined" -> [val |-> Undef, heap |-> h]
      [] f = "spreadX" ->
            LET old == IF IsObject(v) THEN h[v.ref] ELSE NoFields
                new == Spread(old, [x |-> 2])
            IN [val |-> Obj(Len(h) + 1), heap |-> Append(h, new)]

Allocates(f) == f = "spreadX"

cUpdate(updater) ==
    LET r == Apply(updater, value, heap)
        v == r.val
    IN /\ value' = StoreValue(v)
       /\ heap' = r.heap
       /\ saveCalls' = SaveRec(v, r.heap)
       /\ trace' = SaveEv(v) \o StoreSet(v)
       /\ lastOp' = Op("update", Undef, NoFields, updater, "committed", Undef)
       /\ UNCHANGED <<options, saveDone, subs, loadFnCalls, inFlight, initPc, initL, initialized>>

----------------------------------------------------------------------------
\* mutate(mutation).

\* Object.keys(mutation), in order.
KeysOf(m) == SelectSeq(KeyOrder, LAMBDA k : k \in DOMAIN m)

\* The forEach round without `k in v`: v[k] = mutation[k] for every key.
AssignKey_AddsKey(obj, mutation, k) ==
    [j \in (DOMAIN obj) \cup {k} |-> IF j = k THEN mutation[k] ELSE obj[j]]

\* One round of the forEach: if (k in v) v[k] = mutation[k]; else warn.
AssignKey(obj, mutation, k) ==
    IF k \in DOMAIN obj THEN [obj EXCEPT ![k] = mutation[k]] ELSE obj

RECURSIVE AssignKeys(_, _, _)
AssignKeys(obj, mutation, ks) ==
    IF ks = <<>> THEN obj
    ELSE AssignKeys(AssignKey(obj, mutation, Head(ks)), mutation, Tail(ks))

UnknownKeys(obj, mutation) ==
    SelectSeq(KeysOf(mutation), LAMBDA k : k \notin DOMAIN obj)

Warnings(obj, mutation) ==
    [i \in 1..Len(UnknownKeys(obj, mutation)) |-> Ev("warn", NoSub, Undef)]

\* `k in v` raises a TypeError when v is no object.
InThrows(v, mutation) == ~IsObject(v) /\ KeysOf(mutation) # <<>>

\* mutate without the return of line 115: mutateFn is called, and the
\* default path runs as well.
mutate_NoReturn(mutation) ==
    /\ IF InThrows(value, mutation)
       THEN /\ value' = value
            /\ heap' = heap
            /\ saveCalls' = saveCalls
            /\ trace' = <<Ev("mutateFn", NoSub, mutation), Ev("throw", NoSub, Undef)>>
            /\ lastOp' = Op("mutate", Undef, mutation, "", "threw", Undef)
       ELSE LET h2 == IF IsObject(value)
                      THEN [heap EXCEPT ![value.ref] =
                                AssignKeys(heap[value.ref], mutation, KeysOf(mutation))]
                      ELSE heap
                w == IF IsObject(value) THEN Warnings(heap[value.ref], mutation) ELSE <<>>
            IN /\ value' = StoreValue(value)
               /\ heap' = h2
               /\ saveCalls' = SaveRec(value, h2)
               /\ trace' = <<Ev("mutateFn", NoSub, mutation)>> \o w \o SaveEv(value)
                               \o StoreSet(value)
               /\ lastOp' = Op("mutate", Undef, mutation, "", "committed", Undef)
    /\ UNCHANGED <<options, saveDone, subs, loadFnCalls, inFlight, initPc, initL, initialized>>

mutate(mutation) ==
    /\ IF Opt("mutateFn")
       THEN /\ value' = value
            /\ heap' = heap
            /\ saveCalls' = saveCalls
            /\ trace' = <<Ev("mutateFn", NoSub, mutation)>>
            /\ lastOp' = Op("mutate", Undef, mutation, "", "delegated", Undef)
       ELSE IF InThrows(value, mutation)
       THEN /\ value' = value
            /\ heap' = heap
            /\ saveCalls' = saveCalls
            /\ trace' = <<Ev("throw", NoSub, Undef)>>
            /\ lastOp' = Op("mutate", Undef, mutation, "", "threw", Undef)
       ELSE LET h2 == IF IsObject(value)
                      THEN [heap EXCEPT ![value.ref] =
                                AssignKeys(heap[value.ref], mutation, KeysOf(mutation))]
                      ELSE heap
                w == IF IsObject(value) THEN Warnings(heap[value.ref], mutation) ELSE <<>>
            IN /\ value' = StoreValue(value)
               /\ heap' = h2
               /\ saveCalls' = SaveRec(value, h2)
               /\ trace' = w \o SaveEv(value) \o StoreSet(value)
               /\ lastOp' = Op("mutate", Undef, mutation, "", "committed", Undef)
    /\ UNCHANGED <<options, saveDone, subs, loadFnCalls, inFlight, initPc, initL, initialized>>

----------------------------------------------------------------------------
\* subscribe(run) and the unsubscribe handle it returns.

\* subscribe that registers the callback without calling it.
subscribe_Lazy(s) ==
    /\ subs' = Append(subs, s)
    /\ trace' = <<>>
    /\ lastOp' = Op("subscribe", Undef, NoFields, "", "none", Undef)
    /\ UNCHANGED <<options, saveDone, value, heap, saveCalls, loadFnCalls, inFlight,
                   initPc, initL, initialized>>

subscribe(s) ==
    /\ subs' = Append(subs, s)
    /\ trace' = <<Ev("notify", s, value)>>
    /\ lastOp' = Op("subscribe", Undef, NoFields, "", "none", Undef)
    /\ UNCHANGED <<options, saveDone, value, heap, saveCalls, loadFnCalls, inFlight,
                   initPc, initL, initialized>>

unsubscribe(s) ==
    /\ subs' = SelectSeq(subs, LAMBDA t : t # s)
    /\ trace' = <<>>
    /\ lastOp' = Op("unsubscribe", Undef, NoFields, "", "none", Undef)
    /\ UNCHANGED <<options, saveDone, value, heap, saveCalls, loadFnCalls, inFlight,
                   initPc, initL, initialized>>

----------------------------------------------------------------------------
\* load(): cLoad up to its await, and from it.

\* cLoad, lines 58-62: without a loadFn it warns and returns undefined;
\* with one it calls it and waits.
cLoadCall ==
    /\ IF ~Opt("loadFn")
       THEN /\ trace' = <<Ev("warn", NoSub, Undef)>>
            /\ lastOp' = Op("load", Undef, NoFields, "", "returned", Undef)
            /\ UNCHANGED <<loadFnCalls, inFlight>>
       ELSE /\ trace' = <<Ev("loadFn", NoSub, Undef)>>
            /\ lastOp' = Op("load", Undef, NoFields, "", "awaiting", Undef)
            /\ loadFnCalls' = loadFnCalls + 1
            /\ inFlight' = inFlight + 1
    /\ UNCHANGED <<options, saveDone, value, heap, subs, saveCalls, initPc, initL, initialized>>

\* cLoad that sets the store but returns nothing.
cLoadReturn_Undefined(loadedData) == Undef

\* cLoad, lines 64-70, on the value loadFn's promise resolved to: what it
\* returns.
cLoadReturn(loadedData) == IF Truthy(loadedData) THEN loadedData ELSE Undef

\* cLoad that returns what it loaded without setting the store.
cLoadCommit_NoSet(loadedData, h, who) ==
    /\ heap' = h
    /\ value' = value
    /\ trace' = <<>>
    /\ lastOp' = Op(who, loadedData, NoFields, "", "returned", cLoadReturn(loadedData))
    /\ UNCHANGED <<options, saveDone, subs, saveCalls, loadFnCalls>>

\* cLoad that leaves a populated store alone: a write committed during the
\* load survives it.
cLoadCommit_KeepsWrites(loadedData, h, who) ==
    /\ heap' = h
    /\ IF Truthy(loadedData) /\ IsEmpty(value)
       THEN /\ value' = StoreValue(loadedData)
            /\ trace' = StoreSet(loadedData)
       ELSE /\ value' = value
            /\ trace' = <<>>
    /\ lastOp' = Op(who, loadedData, NoFields, "", "returned", cLoadReturn(loadedData))
    /\ UNCHANGED <<options, saveDone, subs, saveCalls, loadFnCalls>>

\* cLoad that commits through set: the loaded value is saved back.
cLoadCommit_Saves(loadedData, h, who) ==
    /\ heap' = h
    /\ IF Truthy(loadedData)
       THEN /\ value' = StoreValue(loadedData)
            /\ trace' = StoreSet(loadedData) \o SaveEv(loadedData)
            /\ saveCalls' = SaveRec(loadedData, h)
       ELSE /\ value' = value
            /\ trace' = <<>>
            /\ saveCalls' = saveCalls
    /\ lastOp' = Op(who, loadedData, NoFields, "", "returned", cLoadReturn(loadedData))
    /\ UNCHANGED <<options, saveDone, subs, loadFnCalls>>

\* cLoad, lines 64-70: the store afterwards.
cLoadCommit(loadedData, h, who) ==
    /\ heap' = h
    /\ IF Truthy(loadedData)
       THEN /\ value' = StoreValue(loadedData)
            /\ trace' = StoreSet(loadedData)
       ELSE /\ value' = value
            /\ trace' = <<>>
    /\ lastOp' = Op(who, loadedData, NoFields, "", "returned", cLoadReturn(loadedData))
    /\ UNCHANGED <<options, saveDone, subs, saveCalls, loadFnCalls>>

\* loadFn's promise rejected: cLoad's promise rejects with it.
cLoadThrow(who) ==
    /\ trace' = <<Ev("throw", NoSub, Undef)>>
    /\ lastOp' = Op(who, Undef, NoFields, "", "threw", Undef)
    /\ UNCHANGED <<options, saveDone, value, heap, subs, saveCalls, loadFnCalls>>

\* load() settling INITIALIZED again with what it loaded.
LoadResume_Resettles(loadedData, h) ==
    /\ inFlight > 0
    /\ inFlight' = inFlight - 1
    /\ cLoadCommit(loadedData, h, "loadResume")
    /\ initialized' = [status |-> IF Truthy(loadedData) THEN "resolved" ELSE "rejected",
                       val |-> cLoadReturn(loadedData)]
    /\ UNCHANGED <<initPc, initL>>

\* An explicit load() resumes.
LoadResume(loadedData, h) ==
    /\ inFlight > 0
    /\ inFlight' = inFlight - 1
    /\ cLoadCommit(loadedData, h, "loadResume")
    /\ UNCHANGED <<initPc, initL, initialized>>

LoadReject ==
    /\ inFlight > 0
    /\ inFlight' = inFlight - 1
    /\ cLoadThrow("loadResume")
    /\ UNCHANGED <<initPc, initL, initialized>>

----------------------------------------------------------------------------
\* INITIALIZED: new Promise(async (resolve, reject) => ...).

Pending == [status |-> "pending", val |-> Undef]
Resolved(v) == [status |-> "resolved", val |-> v]
Rejected(v) == [status |-> "rejected", val |-> v]

\* if (opts.loadOnCreate && opts.loadFn)
AutoLoad == Opt("loadOnCreate") /\ Opt("loadFn")

\* let l = await cLoad(): the cLoad the executor called resumes.
InitLoadResume(loadedData, h) ==
    /\ initPc = "awaitLoad"
    /\ initPc' = "settle"
    /\ initL' = cLoadReturn(loadedData)
    /\ cLoadCommit(loadedData, h, "initLoad")
    /\ UNCHANGED <<inFlight, initialized>>

\* cLoad rejected: the executor's own promise rejects, and nothing settles
\* INITIALIZED.
InitLoadReject ==
    /\ initPc = "awaitLoad"
    /\ initPc' = "abandoned"
    /\ cLoadThrow("initLoad")
    /\ UNCHANGED <<inFlight, initL, initialized>>

\* The executor resolving whatever cLoad returned.
InitSettle_AlwaysResolves ==
    /\ initPc = "settle"
    /\ initPc' = "done"
    /\ initialized' = [status |-> "resolved", val |-> initL]
    /\ trace' = <<>>
    /\ lastOp' = Op("initSettle", initL, NoFields, "", "none", Undef)
    /\ UNCHANGED <<options, saveDone, value, heap, subs, saveCalls, loadFnCalls, inFlight, initL>>

\* if (l) resolve(l); else reject(undefined);
InitSettle ==
    /\ initPc = "settle"
    /\ initPc' = "done"
    /\ initialized' = IF Truthy(initL) THEN Resolved(initL) ELSE Rejected(Undef)
    /\ trace' = <<>>
    /\ lastOp' = Op("initSettle", initL, NoFields, "", "none", Undef)
    /\ UNCHANGED <<options, saveDone, value, heap, subs, saveCalls, loadFnCalls, inFlight, initL>>

----------------------------------------------------------------------------
\* createModel(options): the state when it returns.

Init ==
    /\ options \in OptionsArgs
    /\ value = Undef
    /\ heap = <<>>
    /\ subs = <<>>
    /\ saveCalls = <<>>
    /\ saveDone = <<>>
    /\ inFlight = 0
    /\ initL = Undef
    /\ IF AutoLoad
       THEN /\ loadFnCalls = 1
            /\ initPc = "awaitLoad"
            /\ initialized = Pending
            /\ trace = <<Ev("loadFn", NoSub, Undef)>>
       ELSE /\ loadFnCalls = 0
            /\ initPc = "done"
            /\ initialized = Resolved(Placeholder)
            /\ trace = <<>>
    /\ lastOp = NoOp

----------------------------------------------------------------------------
\* The caller's operations and the promises' continuations.

HasRoom == Len(heap) < MaxObjs
CanSave == Opt("saveFn") => Len(saveCalls) < MaxSaves

SetEmpty == CanSave /\ cSet(Undef, heap)

SetNew ==
    \E o \in InputObjs :
        /\ HasRoom
        /\ CanSave
        /\ cSet(Obj(Len(heap) + 1), Append(heap, o))

Update ==
    \E f \in Transforms :
        /\ Allocates(f) => HasRoom
        /\ CanSave
        /\ cUpdate(f)

Mutate == \E m \in Mutations : CanSave /\ mutate(m)

Subscribe == \E s \in SubIds : s \notin {subs[i] : i \in 1..Len(subs)} /\ subscribe(s)

Unsubscribe == \E s \in SubIds : s \in {subs[i] : i \in 1..Len(subs)} /\ unsubscribe(s)

Load ==
    /\ loadFnCalls < MaxLoadCalls
    /\ cLoadCall

LoadReturnsObject ==
    \E o \in LoadedObjs :
        /\ HasRoom
        /\ LoadResume(Obj(Len(heap) + 1), Append(heap, o))

LoadReturnsEmpty == LoadResume(Undef, heap)

InitLoadReturnsObject ==
    \E o \in LoadedObjs :
        /\ HasRoom
        /\ InitLoadResume(Obj(Len(heap) + 1), Append(heap, o))

InitLoadReturnsEmpty == InitLoadResume(Undef, heap)

Next ==
    \/ SetEmpty
    \/ SetNew
    \/ Update
    \/ Mutate
    \/ Subscribe
    \/ Unsubscribe
    \/ Load
    \/ LoadReturnsObject
    \/ LoadReturnsEmpty
    \/ LoadReject
    \/ InitLoadReturnsObject
    \/ InitLoadReturnsEmpty
    \/ InitLoadReject
    \/ InitSettle

Spec == Init /\ [][Next]_vars

----------------------------------------------------------------------------
\* The promises saveFn returned.  The container never awaits or reads them
\* (lines 90, 101, 141), so when each completes is up to the adapter: any
\* started save may complete at any time.  Spec leaves the completions out;
\* SpecSave follows them on a container created with a saveFn alone.

Done == {saveDone[i] : i \in 1..Len(saveDone)}
PendingSaves == (1..Len(saveCalls)) \ Done

\* What the adapter stored last: the argument, as passed, of the save that
\* completed last.
NoneStored == [t |-> "nothing", fields |-> NoFields]
Storage == IF saveDone = <<>> THEN NoneStored ELSE saveCalls[saveDone[Len(saveDone)]].snap

SaveCompletes(i) ==
    /\ i \in PendingSaves
    /\ saveDone' = Append(saveDone, i)
    /\ trace' = <<>>
    /\ lastOp' = Op("saveCompletes", saveCalls[i].arg, NoFields, "", "none", Undef)
    /\ UNCHANGED <<options, value, heap, subs, saveCalls, loadFnCalls, inFlight,
                   initPc, initL, initialized>>

SaveDone == \E i \in 1..MaxSaves : i <= Len(saveCalls) /\ SaveCompletes(i)

SaveOnlyOptions == [given |-> TRUE, o |-> [saveFn |-> TRUE]]

InitSave == Init /\ options = SaveOnlyOptions

NextSave ==
    \/ SetEmpty
    \/ SetNew
    \/ Update
    \/ Mutate
    \/ Subscribe
    \/ Unsubscribe
    \/ Load
    \/ SaveDone

SpecSave == InitSave /\ [][NextSave]_vars

----------------------------------------------------------------------------
\* Properties.

Last(q) == q[Len(q)]
IsWrite == lastOp.op \in {"set", "update", "mutate"}
Subscribers == {subs[i] : i \in 1..Len(subs)}
Notified(s, v) == \E i \in Pos("notify") : trace[i].sub = s /\ trace[i].arg = v

\* C1: on a container whose caller did not enable allowUndefinedData, no
\* operation commits an empty value to the store.
C1_NeverCommitsEmpty ==
    ~Asked("allowUndefinedData") =>
        /\ \A i \in Pos("commit") : Truthy(trace[i].arg)
        /\ (IsObject(lastOp.pre) => Truthy(value))

C3_SetEmptyIsNoOp ==
    (lastOp.op = "set" /\ IsEmpty(lastOp.arg) /\ ~Asked("allowUndefinedData")) =>
        /\ value = lastOp.pre
        /\ Snap(value, heap) = lastOp.preSnap
        /\ Count("commit") = 0
        /\ Count("notify") = 0
        /\ Count("save") = 0
        /\ Count("throw") = 0

C3_Witness ==
    /\ lastOp.op = "set"
    /\ IsEmpty(lastOp.arg)
    /\ ~Asked("allowUndefinedData")
    /\ IsObject(value)
    /\ subs # <<>>
    /\ Opt("saveFn")
    /\ Len(saveCalls) < MaxSaves

\* C4: within one update call, the commit and every subscriber
\* notification come before the saveFn invocation.
C4_CommitBeforeSave ==
    lastOp.op = "update" =>
        \A i \in Pos("save") :
            \A j \in Pos("commit") \cup Pos("notify") : j < i

\* C5: constructed with loadOnCreate = false and a loadFn, the container is
\* Ready at once: INITIALIZED is resolved, the lifecycle never calls loadFn
\* and never commits.
C5_LoadOnCreateFalseSkipsLoad ==
    (AskedFalse("loadOnCreate") /\ Asked("loadFn")) =>
        /\ initialized.status = "resolved"
        /\ initPc = "done"
        /\ lastOp.op = "create" => loadFnCalls = 0
        /\ lastOp.op \notin {"initLoad", "initSettle"}

\* C6: constructed with allowUndefinedData = true, set(v) with an empty v
\* commits v and, with a saveFn, saves it.
C6_AllowUndefinedCommitsEmpty ==
    (Asked("allowUndefinedData") /\ lastOp.op = "set" /\ IsEmpty(lastOp.arg)) =>
        /\ lastOp.outcome = "committed"
        /\ value = lastOp.arg
        /\ Opt("saveFn") => Count("save") = 1

\* C7: the default mutate(p) on a populated value c leaves the store on the
\* same object with exactly c's keys: a key of c that p has takes p's value,
\* any other key of c keeps its own, and no key of p is added.
C7_MutateMergesKnownKeys ==
    (lastOp.op = "mutate" /\ ~Opt("mutateFn") /\ Truthy(lastOp.pre)) =>
        LET c == lastOp.preSnap.fields
            p == lastOp.mut
            r == Snap(value, heap).fields
        IN /\ value = lastOp.pre
           /\ DOMAIN r = DOMAIN c
           /\ \A k \in DOMAIN c : r[k] = IF k \in DOMAIN p THEN p[k] ELSE c[k]

C7_Witness ==
    /\ lastOp.op = "mutate"
    /\ ~Opt("mutateFn")
    /\ Truthy(lastOp.pre)
    /\ (DOMAIN lastOp.mut) \ (DOMAIN lastOp.preSnap.fields) # {}
    /\ (DOMAIN lastOp.mut) \cap (DOMAIN lastOp.preSnap.fields) # {}
    /\ Snap(value, heap).fields # lastOp.preSnap.fields

\* C8: no set, update or mutate raises an error to its caller, in any
\* state, the one with the value still absent included.
C8_WritesNeverThrow ==
    IsWrite => (Count("throw") = 0 /\ lastOp.outcome # "threw")

\* C9: when the loadFn the lifecycle called returns a populated L, L becomes
\* the current value, every subscriber is notified with L, and INITIALIZED
\* resolves to L.
C9_AutoLoadCommitsAndResolves ==
    /\ (lastOp.op = "initLoad" /\ lastOp.outcome = "returned" /\ Truthy(lastOp.arg)) =>
          /\ value = lastOp.arg
          /\ Pos("commit") # {}
          /\ \A s \in Subscribers : Notified(s, lastOp.arg)
          /\ initL = lastOp.arg
          /\ initPc = "settle"
    /\ (lastOp.op = "initSettle" /\ Truthy(lastOp.arg)) =>
          /\ initL = lastOp.arg
          /\ initialized = Resolved(lastOp.arg)
    /\ (AutoLoad /\ initialized.status = "resolved") =>
          /\ Truthy(initL)
          /\ initialized.val = initL

C9_Witness ==
    /\ lastOp.op = "initSettle"
    /\ Truthy(lastOp.arg)
    /\ initialized = Resolved(value)
    /\ subs # <<>>

\* C10: when the loadFn the lifecycle called returns absent, initialization
\* commits nothing and notifies nobody, the current value stays what it was,
\* and INITIALIZED rejects.
C10_AutoLoadAbsentRejects ==
    /\ (lastOp.op = "initLoad" /\ lastOp.outcome = "returned" /\ IsEmpty(lastOp.arg)) =>
          /\ value = lastOp.pre
          /\ Snap(value, heap) = lastOp.preSnap
          /\ trace = <<>>
          /\ IsEmpty(initL)
          /\ initPc = "settle"
    /\ (lastOp.op = "initSettle" /\ IsEmpty(lastOp.arg)) =>
          /\ value = lastOp.pre
          /\ Snap(value, heap) = lastOp.preSnap
          /\ trace = <<>>
          /\ initialized = Rejected(Undef)

C10_Witness ==
    /\ lastOp.op = "initSettle"
    /\ IsEmpty(lastOp.arg)
    /\ initialized.status = "rejected"
    /\ IsObject(value)
    /\ subs # <<>>

\* C11: whatever the loadFn the lifecycle called does (returns an object,
\* returns absent, or throws), once that call has finished INITIALIZED is
\* settled or the step that settles it is about to run: it does not stay
\* pending for ever.
C11_ReadinessSettles ==
    initPc # "awaitLoad" => (initialized.status # "pending" \/ ENABLED InitSettle)

\* C12: INITIALIZED fires once.  From the step that settles it on, no set,
\* update, mutate, load or continuation changes its outcome or the value it
\* holds, and after construction loadFn is only ever called by an explicit
\* load(), never again by the lifecycle.
C12_SingleFire ==
    [][/\ initialized.status # "pending" => initialized' = initialized
       /\ Count("loadFn")' > 0 => lastOp'.op = "load"
       /\ initPc = "done" => initPc' = "done"]_vars

C12_Witness ==
    /\ initialized.status = "resolved"
    /\ IsObject(initialized.val)
    /\ lastOp.op = "loadResume"
    /\ Truthy(lastOp.arg)
    /\ value # initialized.val

\* C13: with an onInitialized callback, the step that settles INITIALIZED
\* calls it, with the loaded value when the load returned one and with
\* absent otherwise.
C13_OnInitializedCalled ==
    (Asked("onInitialized") /\ lastOp.op = "initSettle") =>
        /\ Count("onInitialized") = 1
        /\ \A i \in Pos("onInitialized") : trace[i].arg = initL

\* C14: load() can be called in every lifecycle state.  With a loadFn, the
\* call invokes it exactly once; when it returns an object, load() commits
\* and returns that object; when it returns absent, load() leaves the value
\* alone and returns absent.  Without a loadFn, load() calls nothing,
\* changes nothing and returns absent.
C14_ExplicitLoad ==
    /\ loadFnCalls < MaxLoadCalls => ENABLED Load
    /\ lastOp.op = "load" =>
          /\ value = lastOp.pre
          /\ Snap(value, heap) = lastOp.preSnap
          /\ IF Opt("loadFn")
             THEN Count("loadFn") = 1 /\ lastOp.outcome = "awaiting" /\ inFlight > 0
             ELSE Count("loadFn") = 0 /\ lastOp.outcome = "returned" /\ lastOp.ret = Undef
    /\ (lastOp.op = "loadResume" /\ lastOp.outcome = "returned") =>
          /\ Count("loadFn") = 0
          /\ IF Truthy(lastOp.arg)
             THEN value = lastOp.arg /\ lastOp.ret = lastOp.arg
             ELSE /\ value = lastOp.pre
                  /\ Snap(value, heap) = lastOp.preSnap
                  /\ lastOp.ret = Undef

C14_Witness ==
    /\ lastOp.op = "loadResume"
    /\ Truthy(lastOp.arg)
    /\ lastOp.ret = value
    /\ initialized.status = "rejected"

\* C15: with a mutateFn, mutate(p) calls mutateFn once, with p, and does
\* nothing else: the value and its fields stay, no subscriber is notified
\* and saveFn is not invoked.
C15_CustomMutateOnly ==
    (lastOp.op = "mutate" /\ Opt("mutateFn")) =>
        /\ trace = <<Ev("mutateFn", NoSub, lastOp.mut)>>
        /\ lastOp.outcome = "delegated"
        /\ value = lastOp.pre
        /\ Snap(value, heap) = lastOp.preSnap

C15_Witness ==
    /\ lastOp.op = "mutate"
    /\ Opt("mutateFn")
    /\ Opt("saveFn")
    /\ Len(saveCalls) < MaxSaves
    /\ subs # <<>>
    /\ IsObject(value)
    /\ (DOMAIN lastOp.mut) \cap (DOMAIN Snap(value, heap).fields) # {}

\* C16: subscribe(callback) calls the callback within the call, exactly
\* once, with the current value, also when that value is still absent, and
\* changes nothing but the list of subscribers.
C16_SubscribeDeliversCurrent ==
    lastOp.op = "subscribe" =>
        /\ subs # <<>>
        /\ trace = <<Ev("notify", Last(subs), value)>>
        /\ value = lastOp.pre
        /\ Snap(value, heap) = lastOp.preSnap

C16_Witness ==
    /\ lastOp.op = "subscribe"
    /\ value = Undef
    /\ heap = <<>>
    /\ Count("notify") = 1

\* C17: what saveFn received stays what it was: after any later write, the
\* argument of every earlier saveFn call still has the fields it had when it
\* was passed.
C17_SavedArgsStay ==
    \A i \in 1..Len(saveCalls) : Snap(saveCalls[i].arg, heap) = saveCalls[i].snap

\* C18: a write starts its save and returns without waiting for it: right
\* after a committed write the save started last is that write's and is
\* still pending, and pending saves keep no write from going ahead.  Started
\* saves complete in any order.
C18_SavesStartedInOrderNotAwaited ==
    /\ (IsWrite /\ lastOp.outcome = "committed") =>
          /\ saveCalls # <<>>
          /\ Last(saveCalls).arg = value
          /\ Len(saveCalls) \in PendingSaves
    /\ (PendingSaves # {} /\ CanSave) => ENABLED Mutate
    /\ (PendingSaves # {} /\ CanSave /\ HasRoom) => ENABLED SetNew
    /\ \A i \in PendingSaves : ENABLED SaveCompletes(i)

\* The second save completed first, the first one last: the storage holds
\* the first write's value while the store holds the second's.
C18_Witness ==
    /\ Len(saveDone) = 2
    /\ saveDone[1] > saveDone[2]
    /\ value = saveCalls[saveDone[1]].arg
    /\ Storage = saveCalls[saveDone[2]].snap
    /\ Storage # Snap(value, heap)

IsLoadCompletion(op) == op.op \in {"loadResume", "initLoad"} /\ op.outcome = "returned"

\* C19: when a load call, automatic or explicit, completes with a populated
\* value L, the current value becomes L whatever was written while the call
\* was in flight, and the saves issued for those writes stay as they were.
C19_LoadOverwritesWrites ==
    [][(IsLoadCompletion(lastOp') /\ Truthy(lastOp'.arg)) =>
          /\ value' = lastOp'.arg
          /\ saveCalls' = saveCalls
          /\ \A i \in 1..Len(saveCalls) : saveCalls'[i].arg # value']_vars

\* The automatic load completes over a value that a write committed and
\* saved while the load was in flight.
C19_Witness ==
    /\ lastOp.op = "initLoad"
    /\ Truthy(lastOp.arg)
    /\ IsObject(lastOp.pre)
    /\ value = lastOp.arg
    /\ value # lastOp.pre
    /\ saveCalls # <<>>
    /\ Last(saveCalls).arg = lastOp.pre

====
